---------------------------- MODULE Spec2Model ----------------------------
(***************************************************************************)
(* Model of src/signals/index.js: the four cooperative synchronization     *)
(* primitives manualReset, autoReset, countdown and semaphore.             *)
(*                                                                         *)
(* One instance of one primitive is alive in a behaviour; `kind` says      *)
(* which factory built it.  Every public method is one atomic action: the  *)
(* runtime is single threaded and a Promise's resolve function only marks  *)
(* the promise resolved, it never runs a continuation synchronously, so no *)
(* method is re-entered while it runs.                                     *)
(*                                                                         *)
(* A waiter (the resolve function handed to enqueueIfNeeded) is named by   *)
(* the ordinal of the ready() call that created it: 1, 2, 3, ...           *)
(*                                                                         *)
(* Numbers handed to the methods are JavaScript numbers and may be         *)
(* fractional.  An argument is written in HALVES: the integer h stands for *)
(* the number h/2, so 2 is 1, 3 is 1.5, -1 is -0.5.  An argument list is a *)
(* sequence: << >> is an omitted argument, <<h>> a given one.              *)
(***************************************************************************)
EXTENDS Integers, Sequences, FiniteSets, TLC

(* ------------------------------ bounds -------------------------------- *)

MaxCalls == 6

MaxCounter == 4

MaxLimit == 3

NCallers == 3

MaxNegCountH == 2

MaxCountH == 5

(* ------------------------- program constants -------------------------- *)

DefaultSignaled == FALSE

DefaultInitialCount == 0

DefaultMaxConcurrency == 5

DefaultCount == 1

(* ------------------------------ state --------------------------------- *)

VARIABLES
    kind,            \* which factory created the instance
    ctor,            \* the argument list the factory was called with
    active,          \* manualReset/autoReset: `active`; countdown: inner's `active`
    queue,           \* the instance's `queue` (countdown: inner's `queue`)
    counter,         \* countdown: `counter`; semaphore: `counter` (admitted)
    maxConcurrency,  \* semaphore: `maxConcurrency` (the limit)
    resolved,        \* history: waiters in the order their resolve() was invoked
    calls,           \* history: number of ready() calls made so far
    op,              \* history: the last completed operation
    lastToggle,      \* history: the last of set()/reset() called on the signal
    run,             \* history: the current run of consecutive set() calls
                     \*   (n counts them, up to two past the queue they found)
    tally,           \* history of the counts and calls an instance was given:
                     \*   tally.plain: so far no increment() and every decrement()
                     \*     was given a whole count >= 1 or none
                     \*   tally.dec: while plain, the sum of the counts given to
                     \*     decrement() (counted up to MaxCounter)
                     \*   tally.rel: the number of release() calls (counted up to 2)
                     \*   tally.sets: auto-reset signal: the number of set() calls
                     \*     (counted up to MaxCalls)
                     \*   tally.over: countdown: the last decrement(m) was given a
                     \*     count m above the counter, and no increment() followed
                     \*   tally.owed: countdown: owed.k > 0 when increment(k) was the
                     \*     first increment after such a decrement and the only one
                     \*     since; owed.d is the sum of the amounts decremented
                     \*     since (counted up to owed.k)
    cs,              \* usage protocols: cs.caller[w] is the caller that made
                     \*   ready() call w, cs.exited the waiters that have left
                     \*   the critical section (called set()) or given their
                     \*   slot back (called release())
    mt               \* promise jobs: mt.ran is the waiters whose continuation
                     \*   (the code after `await ready()`) has run, in the order
                     \*   they ran; mt.parent holds <<c, w>> when ready() call c
                     \*   was made by the continuation of waiter w

vars == <<kind, ctor, active, queue, counter, maxConcurrency,
          resolved, calls, op, lastToggle, run, tally, cs, mt>>

(* ------------------------- JavaScript helpers ------------------------- *)

\* a whole number n as a JavaScript number (in halves)
Num(n) == 2 * n

\* Math.floor of the number h/2
Math_floor(h) == h \div 2

Math_max(a, b) == IF a >= b THEN a ELSE b

Math_min(a, b) == IF a <= b THEN a ELSE b

\* lodash isEmpty on an array
isEmpty(q) == Len(q) = 0

\* a default parameter value: `f(x = d)`
Default(args, d) == IF args = << >> THEN d ELSE args[1]

\* Array.prototype.splice(0, deleteCount): the removed items and what is left
splice0(q, deleteCount) ==
    LET n == Math_min(Math_max(deleteCount, 0), Len(q))
    IN  [removed |-> SubSeq(q, 1, n), rest |-> SubSeq(q, n + 1, Len(q))]

(* --------------------------- history helpers -------------------------- *)

Range(s) == {s[i] : i \in 1..Len(s)}

NoRun == [n |-> 0, q |-> << >>, r |-> << >>]

\* the record of an operation: its name, its arguments, the number of waiters
\* it resolved and the name of the operation completed before it
Op(name, args, before, after) ==
    [name |-> name, args |-> args, n |-> Len(after) - Len(before), prev |-> op.name]

Reverse(s) == [i \in 1..Len(s) |-> s[Len(s) + 1 - i]]

NoDup(s) == \A i, j \in 1..Len(s) : s[i] = s[j] => i = j

\* the waiters 1..n in the order of their ready() calls
Ids(n) == [i \in 1..n |-> i]

\* the amount a count argument stands for: Math.max(1, Math.floor(count))
Amount(args) == Math_max(1, Math_floor(Default(args, Num(DefaultCount))))

\* a count argument that is omitted or a whole number >= 1
PlainCount(args) == args = << >> \/ (args[1] >= 2 /\ args[1] % 2 = 0)

\* the whole number a plain count argument stands for
PlainValue(args) == IF args = << >> THEN 1 ELSE args[1] \div 2

NotPlain == [tally EXCEPT !.plain = FALSE, !.dec = 0]

NotOwed == [k |-> 0, d |-> 0]

\* the tally after increment(count)
Incremented(args) ==
    [NotPlain EXCEPT !.over = FALSE,
                     !.owed = IF tally.over THEN [k |-> Amount(args), d |-> 0]
                                            ELSE NotOwed]


(* ---------------------------- manualReset ----------------------------- *)
(* The private state of a manual-reset signal is the record                *)
(* [active, queue, resolved]; `resolved` collects the resolve() calls.     *)

Signal == [active |-> active, queue |-> queue, resolved |-> resolved]

\* manualReset(signaled = false): const queue = []; let active = signaled
manualReset(args) ==
    [active |-> Default(args, DefaultSignaled), queue |-> << >>, resolved |-> << >>]

\* a variant that queues every caller, also while the signal is open
manualReset_enqueueIfNeeded_always(s, resolve) ==
    [s EXCEPT !.queue = Append(@, resolve)]

\* function enqueueIfNeeded(resolve): if (active) resolve(); else queue.push(resolve)
manualReset_enqueueIfNeeded(s, resolve) ==
    IF s.active
    THEN [s EXCEPT !.resolved = Append(@, resolve)]
    ELSE [s EXCEPT !.queue = Append(@, resolve)]

\* a variant that leaves the signal as it is
manualReset_reset_noop(s) == s

\* a variant that also drops the waiters: queue.length = 0
manualReset_reset_clear(s) == [s EXCEPT !.active = FALSE, !.queue = << >>]

\* function reset(): active = false
manualReset_reset(s) == [s EXCEPT !.active = FALSE]

\* while (!isEmpty(queue)) queue.shift()();
RECURSIVE manualReset_drain(_)
manualReset_drain(s) ==
    IF ~isEmpty(s.queue)
    THEN manualReset_drain([s EXCEPT !.queue = Tail(@),
                                     !.resolved = Append(@, Head(s.queue))])
    ELSE s

\* a variant that drains from the tail: queue.pop()()
manualReset_set_lifo(s) ==
    [active |-> TRUE, queue |-> << >>, resolved |-> s.resolved \o Reverse(s.queue)]

\* a variant that walks the queue without emptying it: queue.forEach(fn => fn())
manualReset_set_forEach(s) ==
    [active |-> TRUE, queue |-> s.queue, resolved |-> s.resolved \o s.queue]

\* function set(): active = true; then the drain loop
manualReset_set(s) == manualReset_drain([s EXCEPT !.active = TRUE])

(* ----------------------------- autoReset ------------------------------ *)

\* autoReset(signaled = false): const queue = []; let active = signaled
autoReset(args) ==
    [active |-> Default(args, DefaultSignaled), queue |-> << >>, resolved |-> << >>]

\* a variant that leaves the signal as it is
autoReset_reset_noop(s) == s

\* a variant that also drops the waiters: queue.length = 0
autoReset_reset_clear(s) == [s EXCEPT !.active = FALSE, !.queue = << >>]

\* function reset(): active = false
autoReset_reset(s) == [s EXCEPT !.active = FALSE]

\* a variant that forgets to reset(): the open state is not consumed
autoReset_enqueueIfNeeded_noReset(s, resolve) ==
    IF s.active
    THEN [s EXCEPT !.resolved = Append(@, resolve)]
    ELSE [s EXCEPT !.queue = Append(@, resolve)]

\* function enqueueIfNeeded(resolve): if (active) { reset(); resolve(); } else queue.push(resolve)
autoReset_enqueueIfNeeded(s, resolve) ==
    IF s.active
    THEN [autoReset_reset(s) EXCEPT !.resolved = Append(@, resolve)]
    ELSE [s EXCEPT !.queue = Append(@, resolve)]

\* a variant that releases the latest waiter: queue.pop()()
autoReset_set_pop(s) ==
    IF ~isEmpty(s.queue)
    THEN [s EXCEPT !.queue = SubSeq(@, 1, Len(@) - 1),
                   !.resolved = Append(@, s.queue[Len(s.queue)])]
    ELSE [s EXCEPT !.active = TRUE]

\* a variant without the else: active = true on every set()
autoReset_set_alwaysActive(s) ==
    IF ~isEmpty(s.queue)
    THEN [s EXCEPT !.queue = Tail(@), !.resolved = Append(@, Head(s.queue)),
                   !.active = TRUE]
    ELSE [s EXCEPT !.active = TRUE]

\* a variant that only opens the signal and leaves the waiters queued
autoReset_set_activeOnly(s) == [s EXCEPT !.active = TRUE]

\* function set(): if (!isEmpty(queue)) queue.shift()(); else active = true
autoReset_set(s) ==
    IF ~isEmpty(s.queue)
    THEN [s EXCEPT !.queue = Tail(@), !.resolved = Append(@, Head(s.queue))]
    ELSE [s EXCEPT !.active = TRUE]

(* ----------------------------- countdown ------------------------------ *)
(* State: [counter, inner] with inner a manual-reset signal record.        *)

Countdown == [counter |-> counter, inner |-> Signal]

\* let counter = Math.max(0, Math.floor(initialCount));
\* const inner = manualReset(counter === 0);
countdown(args) ==
    LET c == Math_max(0, Math_floor(Default(args, Num(DefaultInitialCount))))
    IN  [counter |-> c, inner |-> manualReset(<<c = 0>>)]

\* a variant that forgets inner.reset()
countdown_increment_noReset(cd, args) ==
    [counter |-> cd.counter + Math_max(1, Math_floor(Default(args, Num(DefaultCount)))),
     inner   |-> cd.inner]

\* function increment(count = 1): counter += Math.max(1, Math.floor(count)); inner.reset()
countdown_increment(cd, args) ==
    [counter |-> cd.counter + Math_max(1, Math_floor(Default(args, Num(DefaultCount)))),
     inner   |-> manualReset_reset(cd.inner)]

\* a variant without the clamp: counter = counter - amount
countdown_decrement_noClamp(cd, args) ==
    LET amount == Math_max(1, Math_floor(Default(args, Num(DefaultCount))))
        c      == cd.counter - amount
    IN  [counter |-> c,
         inner   |-> IF c = 0 THEN manualReset_set(cd.inner) ELSE cd.inner]

\* a variant without the minimum of 1: amount = Math.floor(count)
countdown_decrement_noMin(cd, args) ==
    LET amount == Math_floor(Default(args, Num(DefaultCount)))
        c      == Math_max(0, cd.counter - amount)
    IN  [counter |-> c,
         inner   |-> IF c = 0 THEN manualReset_set(cd.inner) ELSE cd.inner]

\* a variant that refuses a decrement larger than the counter
countdown_decrement_strict(cd, args) ==
    LET amount == Math_max(1, Math_floor(Default(args, Num(DefaultCount))))
    IN  IF amount > cd.counter
        THEN cd
        ELSE [counter |-> cd.counter - amount,
              inner   |-> IF cd.counter - amount = 0
                          THEN manualReset_set(cd.inner) ELSE cd.inner]

\* function decrement(count = 1)
countdown_decrement(cd, args) ==
    LET amount == Math_max(1, Math_floor(Default(args, Num(DefaultCount))))
        c      == Math_max(0, cd.counter - amount)
    IN  [counter |-> c,
         inner   |-> IF c = 0 THEN manualReset_set(cd.inner) ELSE cd.inner]

\* function ready(): return inner.ready()
countdown_ready(cd, resolve) ==
    [cd EXCEPT !.inner = manualReset_enqueueIfNeeded(@, resolve)]

(* ----------------------------- semaphore ------------------------------ *)
(* State: [maxConcurrency, counter, queue, resolved].                      *)

Semaphore == [maxConcurrency |-> maxConcurrency, counter |-> counter,
              queue |-> queue, resolved |-> resolved]

\* semaphore(maxConcurrency = 5): let counter = 0; const queue = []
semaphore(args) ==
    [maxConcurrency |-> Default(args, DefaultMaxConcurrency),
     counter |-> 0, queue |-> << >>, resolved |-> << >>]

\* a variant that compares before it counts: counter++ <= maxConcurrency
semaphore_enqueueIfNeeded_postIncrement(m, resolve) ==
    LET c == m.counter + 1
    IN  IF m.counter <= m.maxConcurrency
        THEN [m EXCEPT !.counter = c, !.resolved = Append(@, resolve)]
        ELSE [m EXCEPT !.counter = c, !.queue = Append(@, resolve)]

\* a variant that queues at the head: queue.unshift(resolve)
semaphore_enqueueIfNeeded_unshift(m, resolve) ==
    LET c == m.counter + 1
    IN  IF c <= m.maxConcurrency
        THEN [m EXCEPT !.counter = c, !.resolved = Append(@, resolve)]
        ELSE [m EXCEPT !.counter = c, !.queue = <<resolve>> \o @]

\* a variant that admits one caller too few: ++counter < maxConcurrency
semaphore_enqueueIfNeeded_strict(m, resolve) ==
    LET c == m.counter + 1
    IN  IF c < m.maxConcurrency
        THEN [m EXCEPT !.counter = c, !.resolved = Append(@, resolve)]
        ELSE [m EXCEPT !.counter = c, !.queue = Append(@, resolve)]

\* function enqueueIfNeeded(resolve): if (++counter <= maxConcurrency) resolve(); else queue.push(resolve)
semaphore_enqueueIfNeeded(m, resolve) ==
    LET c == m.counter + 1
    IN  IF c <= m.maxConcurrency
        THEN [m EXCEPT !.counter = c, !.resolved = Append(@, resolve)]
        ELSE [m EXCEPT !.counter = c, !.queue = Append(@, resolve)]

\* a variant that gives back only the slots handed to waiters:
\* counter -= queue.splice(0, amount).length
semaphore_release_countRemoved(m, args) ==
    LET min    == Math_max(1, Math_floor(Default(args, Num(DefaultCount))))
        amount == Math_min(m.counter - Len(m.queue), min)
        sp     == splice0(m.queue, amount)
    IN  [m EXCEPT !.counter  = m.counter - Len(sp.removed),
                  !.queue    = sp.rest,
                  !.resolved = m.resolved \o sp.removed]

\* a variant that removes the waiters without calling them:
\* queue.splice(0, amount) with no forEach(attempt)
semaphore_release_noAttempt(m, args) ==
    LET min    == Math_max(1, Math_floor(Default(args, Num(DefaultCount))))
        amount == Math_min(m.counter - Len(m.queue), min)
        sp     == splice0(m.queue, amount)
    IN  [m EXCEPT !.counter  = m.counter - amount,
                  !.queue    = sp.rest]

\* a variant without the cap: amount = min
semaphore_release_uncapped(m, args) ==
    LET min    == Math_max(1, Math_floor(Default(args, Num(DefaultCount))))
        amount == min
        sp     == splice0(m.queue, amount)
    IN  [m EXCEPT !.counter  = m.counter - amount,
                  !.queue    = sp.rest,
                  !.resolved = m.resolved \o sp.removed]

\* a variant that releases the latest waiters: queue.splice(-amount)
semaphore_release_fromTail(m, args) ==
    LET min    == Math_max(1, Math_floor(Default(args, Num(DefaultCount))))
        amount == Math_min(m.counter - Len(m.queue), min)
        n      == Math_min(amount, Len(m.queue))
    IN  [m EXCEPT !.counter  = m.counter - amount,
                  !.queue    = SubSeq(m.queue, 1, Len(m.queue) - n),
                  !.resolved = m.resolved \o SubSeq(m.queue, Len(m.queue) - n + 1, Len(m.queue))]

\* a variant that hands a slot to one waiter at most:
\* queue.shift() in place of queue.splice(0, amount)
semaphore_release_shiftOne(m, args) ==
    LET min    == Math_max(1, Math_floor(Default(args, Num(DefaultCount))))
        amount == Math_min(m.counter - Len(m.queue), min)
        sp     == splice0(m.queue, Math_min(amount, 1))
    IN  [m EXCEPT !.counter  = m.counter - amount,
                  !.queue    = sp.rest,
                  !.resolved = m.resolved \o sp.removed]

\* function release(count = 1)
semaphore_release(m, args) ==
    LET min    == Math_max(1, Math_floor(Default(args, Num(DefaultCount))))
        amount == Math_min(m.counter - Len(m.queue), min)
        sp     == splice0(m.queue, amount)
    IN  [m EXCEPT !.counter  = m.counter - amount,
                  !.queue    = sp.rest,
                  !.resolved = m.resolved \o sp.removed]

\* queued: readonly(() => queue.length)
queued == Len(queue)

\* running: readonly(() => counter - queue.length)
running == counter - Len(queue)

\* available: readonly(() => Math.max(0, maxConcurrency - counter))
available == Math_max(0, maxConcurrency - counter)


(* --------------------------- argument sets ---------------------------- *)

SignaledArgs == {<< >>, <<FALSE>>, <<TRUE>>}

InitialCountArgs == {<< >>} \cup {<<h>> : h \in (-MaxNegCountH)..(Num(MaxCounter) + 1)}

LimitArgs == {<< >>} \cup {<<n>> : n \in 1..MaxLimit}

CountArgs == {<< >>} \cup {<<h>> : h \in (-MaxNegCountH)..MaxCountH}

(* ---------------------------- construction ---------------------------- *)

New(k, args) ==
    /\ kind = k
    /\ ctor = args
    /\ calls = 0
    /\ op = [name |-> "new", args |-> args, n |-> 0, prev |-> "none"]
    /\ lastToggle = "none"
    /\ run = NoRun
    /\ tally = [plain |-> TRUE, dec |-> 0, rel |-> 0, sets |-> 0,
                over |-> FALSE, owed |-> NotOwed]
    /\ cs = [caller |-> << >>, exited |-> {}]
    /\ mt = [ran |-> << >>, parent |-> {}]

InitManualReset ==
    \E args \in SignaledArgs :
        LET s == manualReset(args)
        IN  /\ New("manualReset", args)
            /\ active = s.active /\ queue = s.queue /\ resolved = s.resolved
            /\ counter = 0 /\ maxConcurrency = 0

InitAutoReset ==
    \E args \in SignaledArgs :
        LET s == autoReset(args)
        IN  /\ New("autoReset", args)
            /\ active = s.active /\ queue = s.queue /\ resolved = s.resolved
            /\ counter = 0 /\ maxConcurrency = 0

InitCountdown ==
    \E args \in InitialCountArgs :
        LET cd == countdown(args)
        IN  /\ New("countdown", args)
            /\ counter = cd.counter
            /\ active = cd.inner.active /\ queue = cd.inner.queue
            /\ resolved = cd.inner.resolved
            /\ maxConcurrency = 0

InitSemaphore ==
    \E args \in LimitArgs :
        LET m == semaphore(args)
        IN  /\ New("semaphore", args)
            /\ maxConcurrency = m.maxConcurrency /\ counter = m.counter
            /\ queue = m.queue /\ resolved = m.resolved
            /\ active = FALSE

Init == InitManualReset \/ InitAutoReset \/ InitCountdown \/ InitSemaphore

(* ------------------------------ actions ------------------------------- *)

\* the new state of a signal after one of its methods
SignalStep(s, name, args) ==
    /\ active' = s.active
    /\ queue' = s.queue
    /\ resolved' = s.resolved
    /\ op' = Op(name, args, resolved, s.resolved)
    /\ UNCHANGED <<kind, ctor, counter, maxConcurrency>>

\* ready(): return new Promise(enqueueIfNeeded)
ManualResetReadyCall ==
    /\ kind = "manualReset"
    /\ calls < MaxCalls
    /\ calls' = calls + 1
    /\ SignalStep(manualReset_enqueueIfNeeded(Signal, calls + 1), "ready", << >>)
    /\ UNCHANGED <<lastToggle, run, tally>>

ManualResetReady == ManualResetReadyCall /\ UNCHANGED <<cs, mt>>

ManualResetReset ==
    /\ kind = "manualReset"
    /\ SignalStep(manualReset_reset(Signal), "reset", << >>)
    /\ lastToggle' = "reset"
    /\ UNCHANGED <<calls, run, tally, cs, mt>>

\* a variant whose waiters are plain callbacks: set() runs the continuation
\* of each waiter inside its loop, and the first of them closes the signal
\* and waits again (signal.reset(); signal.ready()) while the loop still runs
ManualResetSet_sync ==
    /\ kind = "manualReset"
    /\ LET again == queue # << >> /\ calls < MaxCalls
           batch == IF again THEN Append(queue, calls + 1) ELSE queue
       IN  /\ SignalStep([active |-> ~again, queue |-> << >>,
                          resolved |-> resolved \o batch], "set", << >>)
           /\ calls' = IF again THEN calls + 1 ELSE calls
           /\ mt' = [ran    |-> mt.ran \o batch,
                     parent |-> IF again
                                THEN mt.parent \cup {<<calls + 1, Head(queue)>>}
                                ELSE mt.parent]
    /\ lastToggle' = "set"
    /\ UNCHANGED <<run, tally, cs>>

ManualResetSet ==
    /\ kind = "manualReset"
    /\ SignalStep(manualReset_set(Signal), "set", << >>)
    /\ lastToggle' = "set"
    /\ UNCHANGED <<calls, run, tally, cs, mt>>

\* ready(): return new Promise(enqueueIfNeeded)
AutoResetReadyCall ==
    /\ kind = "autoReset"
    /\ calls < MaxCalls
    /\ calls' = calls + 1
    /\ SignalStep(autoReset_enqueueIfNeeded(Signal, calls + 1), "ready", << >>)
    /\ run' = NoRun
    /\ UNCHANGED <<lastToggle, tally>>

AutoResetReady == AutoResetReadyCall /\ UNCHANGED <<cs, mt>>

AutoResetReset ==
    /\ kind = "autoReset"
    /\ SignalStep(autoReset_reset(Signal), "reset", << >>)
    /\ lastToggle' = "reset"
    /\ run' = NoRun
    /\ UNCHANGED <<calls, tally, cs, mt>>

AutoResetSet ==
    /\ kind = "autoReset"
    /\ SignalStep(autoReset_set(Signal), "set", << >>)
    /\ lastToggle' = "set"
    /\ run' = IF run.n = 0
              THEN [n |-> 1, q |-> queue, r |-> resolved]
              ELSE [run EXCEPT !.n = Math_min(@ + 1, Len(run.q) + 2)]
    /\ tally' = [tally EXCEPT !.sets = Math_min(@ + 1, MaxCalls)]
    /\ UNCHANGED <<calls, cs, mt>>

\* the new state of a countdown signal after one of its methods
CountdownStep(cd, name, args) ==
    /\ counter' = cd.counter
    /\ active' = cd.inner.active
    /\ queue' = cd.inner.queue
    /\ resolved' = cd.inner.resolved
    /\ op' = Op(name, args, resolved, cd.inner.resolved)
    /\ UNCHANGED <<kind, ctor, maxConcurrency, lastToggle, run>>

\* increment(count)
CountdownIncrementWith(args) ==
    /\ kind = "countdown"
    /\ countdown_increment(Countdown, args).counter <= MaxCounter
    /\ CountdownStep(countdown_increment(Countdown, args), "increment", args)
    /\ tally' = Incremented(args)
    /\ UNCHANGED <<calls, cs, mt>>

CountdownIncrement == \E args \in CountArgs : CountdownIncrementWith(args)

\* decrement(count)
CountdownDecrementWith(args) ==
    /\ kind = "countdown"
    /\ CountdownStep(countdown_decrement(Countdown, args), "decrement", args)
    /\ tally' = [(IF tally.plain /\ PlainCount(args)
                   THEN [tally EXCEPT !.dec = Math_min(@ + PlainValue(args), MaxCounter)]
                   ELSE NotPlain)
                  EXCEPT
                    !.over = Default(args, Num(DefaultCount)) > Num(counter),
                    !.owed = [@ EXCEPT !.d = Math_min(@ + Amount(args), tally.owed.k)]]
    /\ UNCHANGED <<calls, cs, mt>>

CountdownDecrement == \E args \in CountArgs : CountdownDecrementWith(args)

CountdownReadyCall ==
    /\ kind = "countdown"
    /\ calls < MaxCalls
    /\ calls' = calls + 1
    /\ CountdownStep(countdown_ready(Countdown, calls + 1), "ready", << >>)
    /\ UNCHANGED tally

CountdownReady == CountdownReadyCall /\ UNCHANGED <<cs, mt>>

\* the new state of a semaphore after one of its methods
SemaphoreStep(m, name, args) ==
    /\ counter' = m.counter
    /\ queue' = m.queue
    /\ resolved' = m.resolved
    /\ maxConcurrency' = m.maxConcurrency
    /\ op' = Op(name, args, resolved, m.resolved)
    /\ UNCHANGED <<kind, ctor, active, lastToggle, run>>

\* ready(): return new Promise(enqueueIfNeeded)
SemaphoreReadyCall ==
    /\ kind = "semaphore"
    /\ calls < MaxCalls
    /\ calls' = calls + 1
    /\ SemaphoreStep(semaphore_enqueueIfNeeded(Semaphore, calls + 1), "ready", << >>)
    /\ UNCHANGED tally

SemaphoreReady == SemaphoreReadyCall /\ UNCHANGED <<cs, mt>>

\* release(count)
SemaphoreReleaseWith(args) ==
    /\ kind = "semaphore"
    /\ SemaphoreStep(semaphore_release(Semaphore, args), "release", args)
    /\ tally' = [tally EXCEPT !.rel = Math_min(@ + 1, 2)]
    /\ UNCHANGED <<calls, cs, mt>>

SemaphoreRelease == \E args \in CountArgs : SemaphoreReleaseWith(args)

Next ==
    \/ ManualResetReady \/ ManualResetReset \/ ManualResetSet
    \/ AutoResetReady \/ AutoResetReset \/ AutoResetSet
    \/ CountdownIncrement \/ CountdownDecrement \/ CountdownReady
    \/ SemaphoreReady \/ SemaphoreRelease

Spec == Init /\ [][Next]_vars

(* -------------- the auto-reset signal as a critical section ----------- *)
(* The documented use of autoReset: every caller awaits ready(), is inside *)
(* the critical section from the resolution of its ready() until it calls  *)
(* set(), and calls set() exactly once, when it leaves.  Nothing else      *)
(* calls set() or reset().  A caller that has left may come back.          *)

Callers == 1..NCallers

\* the waiters inside the critical section: resolved and not yet left
Inside == Range(resolved) \ cs.exited

\* the callers that have an outstanding ready() call or are inside
Busy == {cs.caller[w] : w \in (1..calls) \ cs.exited}

InitCS == InitAutoReset

\* a caller arrives: await signal.ready()
CSArrive ==
    /\ \E c \in Callers \ Busy : cs' = [cs EXCEPT !.caller = Append(@, c)]
    /\ AutoResetReadyCall
    /\ UNCHANGED mt

\* a caller inside the critical section leaves: signal.set()
CSLeave ==
    /\ kind = "autoReset"
    /\ \E w \in Inside : cs' = [cs EXCEPT !.exited = @ \cup {w}]
    /\ SignalStep(autoReset_set(Signal), "set", << >>)
    /\ lastToggle' = "set"
    /\ run' = NoRun
    /\ UNCHANGED <<calls, tally, mt>>

NextCS == CSArrive \/ CSLeave

SpecCS == InitCS /\ [][NextCS]_vars


\* the same protocol with every caller inside the critical section leaving
\* it in the end
SpecCSFair == InitCS /\ [][NextCS]_vars /\ WF_vars(CSLeave)

(* ------------------- the semaphore as a pool of slots ----------------- *)
(* The documented use of semaphore: every caller awaits ready(), holds a   *)
(* slot from the resolution of its ready() and gives it back with          *)
(* release(1), exactly once.  Nothing else calls release().                *)

InitPool == InitSemaphore

\* a caller arrives: await pool.ready()
PoolAcquire == SemaphoreReady

\* the holder w gives its slot back: pool.release(1)
PoolReleaseBy(w) ==
    /\ kind = "semaphore"
    /\ w \in Inside
    /\ cs' = [cs EXCEPT !.exited = @ \cup {w}]
    /\ SemaphoreStep(semaphore_release(Semaphore, <<Num(1)>>), "release", <<Num(1)>>)
    /\ tally' = [tally EXCEPT !.rel = Math_min(@ + 1, 2)]
    /\ UNCHANGED <<calls, mt>>

PoolRelease == \E w \in 1..MaxCalls : PoolReleaseBy(w)

NextPool == PoolAcquire \/ PoolRelease

\* every holder gives its slot back in the end
SpecPool ==
    InitPool /\ [][NextPool]_vars /\ \A w \in 1..MaxCalls : WF_vars(PoolReleaseBy(w))

(* ------------------------ promise continuations ----------------------- *)
(* ready() returns a Promise and its caller awaits it.  Calling the        *)
(* promise's resolve function queues the caller's continuation as a job;   *)
(* the jobs run one at a time, in the order they were queued, and never    *)
(* while a method of the instance is running.  A continuation may call     *)
(* the instance again.                                                     *)

\* the jobs queued and not yet run: the continuations of the resolved
\* waiters whose continuation has not run, in the order of the resolve() calls
Jobs == SubSeq(resolved, Len(mt.ran) + 1, Len(resolved))

\* the continuation of waiter w has run
Ran(w) == [mt EXCEPT !.ran = Append(@, w)]

\* the continuation of waiter w has run and has made the next ready() call
Issued(w) == [mt EXCEPT !.ran = Append(@, w), !.parent = @ \cup {<<calls + 1, w>>}]

\* the job at the head runs; the continuation does not call the instance
MTReturn ==
    /\ Jobs # << >>
    /\ mt' = Ran(Head(Jobs))
    /\ UNCHANGED <<kind, ctor, active, queue, counter, maxConcurrency,
                   resolved, calls, op, lastToggle, run, tally, cs>>

\* the job at the head runs; the continuation calls ready() again
MTReady ==
    /\ Jobs # << >>
    /\ mt' = Issued(Head(Jobs))
    /\ \/ ManualResetReadyCall
       \/ AutoResetReadyCall
       \/ CountdownReadyCall
       \/ SemaphoreReadyCall
    /\ UNCHANGED cs

\* the job at the head runs; the continuation closes the signal and waits
\* for it: signal.reset(); await signal.ready()
MTResetReady ==
    /\ Jobs # << >>
    /\ calls < MaxCalls
    /\ mt' = Issued(Head(Jobs))
    /\ calls' = calls + 1
    /\ \/ /\ kind = "manualReset"
          /\ SignalStep(manualReset_enqueueIfNeeded(manualReset_reset(Signal), calls + 1),
                        "ready", << >>)
       \/ /\ kind = "autoReset"
          /\ SignalStep(autoReset_enqueueIfNeeded(autoReset_reset(Signal), calls + 1),
                        "ready", << >>)
    /\ lastToggle' = "reset"
    /\ run' = NoRun
    /\ UNCHANGED <<tally, cs>>

\* the job at the head runs; the continuation adds work and waits for it:
\* countdown.increment(); await countdown.ready()
MTIncrementReady ==
    /\ Jobs # << >>
    /\ calls < MaxCalls
    /\ kind = "countdown"
    /\ countdown_increment(Countdown, << >>).counter <= MaxCounter
    /\ mt' = Issued(Head(Jobs))
    /\ calls' = calls + 1
    /\ CountdownStep(countdown_ready(countdown_increment(Countdown, << >>), calls + 1),
                     "ready", << >>)
    /\ tally' = Incremented(<< >>)
    /\ UNCHANGED cs

\* the counts and initial counts the callers of this protocol use
MTCountArgs == {<< >>, <<Num(2)>>}

MTInitialCountArgs == {<< >>, <<Num(2)>>}

InitMT ==
    \/ InitManualReset
    \/ InitAutoReset
    \/ InitCountdown /\ ctor \in MTInitialCountArgs
    \/ InitSemaphore

MTIncrement == \E args \in MTCountArgs : CountdownIncrementWith(args)

MTDecrement == \E args \in MTCountArgs : CountdownDecrementWith(args)

MTRelease == \E args \in MTCountArgs : SemaphoreReleaseWith(args)

NextMT ==
    \/ ManualResetReady \/ ManualResetReset \/ ManualResetSet
    \/ AutoResetReady \/ AutoResetReset \/ AutoResetSet
    \/ CountdownReady \/ MTIncrement \/ MTDecrement
    \/ SemaphoreReady \/ MTRelease
    \/ MTReturn \/ MTReady \/ MTResetReady \/ MTIncrementReady

SpecMT == InitMT /\ [][NextMT]_vars

(* ============================== claims ================================ *)

\* C1. Semaphore: in every state reachable by ready() and release(count)
\* calls with limit L >= 1, running (= admitted - queue.length) is at most
\* L, queued is not negative, and admitted = running + queued.
C1_SemaphoreInvariant ==
    kind = "semaphore" /\ maxConcurrency >= 1 =>
        /\ running <= maxConcurrency
        /\ queued >= 0
        /\ counter = running + queued

\* a release has handed slots to queued callers and the pool is full again,
\* with callers still waiting
C1_Witness ==
    /\ kind = "semaphore"
    /\ op.name = "release" /\ op.n >= 1
    /\ running = maxConcurrency
    /\ queued >= 2

\* C2. Auto-reset signal as a critical section: when the signal starts
\* open, every caller enters only once its ready() is resolved and calls
\* set() exactly once when it leaves, at most one caller is inside.
C2_CriticalSection ==
    kind = "autoReset" /\ Default(ctor, DefaultSignaled) =>
        Cardinality(Inside) <= 1

\* the section has been handed over twice, one caller is inside and two wait
C2_Witness ==
    /\ kind = "autoReset" /\ ctor = <<TRUE>>
    /\ Cardinality(cs.exited) >= 2
    /\ Cardinality(Inside) = 1
    /\ Len(queue) >= 2

\* C3. Manual-reset signal: after N ready() calls on a closed signal and one
\* set(), all N waiters are resolved in the order of their ready() calls and
\* the queue is empty.  (After any set(), every ready() call made so far is
\* resolved, in call order.)
C3_ManualSetReleasesAllInOrder ==
    kind = "manualReset" /\ op.name = "set" =>
        /\ queue = << >>
        /\ resolved = Ids(calls)

\* a set() that found three waiters queued on the closed signal
C3_Witness ==
    /\ kind = "manualReset"
    /\ op.name = "set" /\ op.n >= 3
    /\ queue = << >>

\* C4. Manual-reset signal: whenever active is true the queue is empty.
C4_ManualActiveQueueEmpty ==
    kind = "manualReset" /\ active => queue = << >>

\* a ready() resolved at once on a signal that a set() had opened, with three
\* waiters resolved so far and none queued
C4_Witness ==
    /\ kind = "manualReset"
    /\ active
    /\ op.name = "ready" /\ op.prev = "set"
    /\ Len(resolved) >= 3

\* C5. Manual-reset signal: a ready() called after reset() with no set() in
\* between is queued and stays unresolved until the next set(); a ready()
\* called after set() with no reset() in between is resolved at once and is
\* never placed in the queue.
C5_ManualReadyAfterToggle ==
    [][kind = "manualReset" =>
        /\ (op'.name = "ready" /\ lastToggle = "reset" =>
                /\ queue' = Append(queue, calls')
                /\ resolved' = resolved)
        /\ (op'.name = "ready" /\ lastToggle = "set" =>
                /\ resolved' = Append(resolved, calls')
                /\ queue' = queue
                /\ calls' \notin Range(queue'))
        /\ (op'.name # "set" =>
                \A w \in Range(queue) :
                    w \in Range(queue') /\ w \notin Range(resolved'))]_vars

\* set(); ready() resolved at once; reset(); ready() queued; reset() again and
\* the second caller still waits
C5_Witness ==
    /\ kind = "manualReset" /\ ctor = <<FALSE>>
    /\ lastToggle = "reset"
    /\ op.name = "reset" /\ op.prev = "ready"
    /\ resolved = <<1>>
    /\ queue = <<2>>

\* the signal is open according to the calls made on it
ManualOpenByCalls ==
    \/ lastToggle = "set"
    \/ lastToggle = "none" /\ Default(ctor, DefaultSignaled)

\* C6. Manual-reset signal: set() on an already open signal leaves active,
\* the queue and the resolved waiters unchanged (set();set() is set()), and
\* no waiter is ever resolved more than once.
C6_ManualSetIdempotent ==
    [][kind = "manualReset" =>
        /\ (op'.name = "set" /\ ManualOpenByCalls =>
                active' = active /\ queue' = queue /\ resolved' = resolved)
        /\ NoDup(resolved')]_vars

\* set() twice in a row, after the first one released two waiters
C6_Witness ==
    /\ kind = "manualReset"
    /\ op.name = "set" /\ op.prev = "set"
    /\ Len(resolved) >= 2
    /\ ctor = <<FALSE>>

\* C7. Auto-reset signal: on an open signal with an empty queue the first
\* ready() is resolved at once and closes the signal; a second ready() right
\* after it is queued, and a queued waiter is resolved only by a set().
C7_AutoFirstReadyConsumes ==
    [][kind = "autoReset" =>
        /\ (op'.name = "ready" /\ active /\ queue = << >> =>
                /\ resolved' = Append(resolved, calls')
                /\ ~active'
                /\ queue' = << >>)
        /\ (op'.name = "ready" /\ op.name = "ready" /\ op.n = 1 =>
                /\ queue' = Append(queue, calls')
                /\ resolved' = resolved
                /\ ~active')
        /\ (\A w \in Range(queue) :
                w \in Range(resolved') => op'.name = "set")]_vars

\* a signal created open: the first ready() was resolved, the second queued
C7_Witness ==
    /\ kind = "autoReset" /\ ctor = <<TRUE>>
    /\ op.name = "ready" /\ op.prev = "ready"
    /\ resolved = <<1>>
    /\ queue = <<2>>
    /\ ~active

\* C8. Auto-reset signal: with K >= 1 queued waiters each set() resolves
\* exactly the earliest queued waiter, shrinks the queue by one and leaves
\* active false; K consecutive set() calls resolve all K in FIFO order, each
\* once, and leave the queue empty with active false.  set() with an empty
\* queue resolves nobody and sets active to true.
\* (run.q and run.r are the queue and the resolved waiters found by the first
\* set() of the current run of run.n consecutive set() calls.)
C8_AutoSetReleasesOne ==
    kind = "autoReset" /\ run.n >= 1 =>
        LET K == Len(run.q)
        IN  /\ NoDup(resolved)
            /\ op.n = (IF run.n <= K THEN 1 ELSE 0)
            /\ IF run.n <= K
               THEN /\ resolved = run.r \o SubSeq(run.q, 1, run.n)
                    /\ queue = SubSeq(run.q, run.n + 1, K)
                    /\ ~active
               ELSE /\ resolved = run.r \o run.q
                    /\ queue = << >>
                    /\ active

\* three set() calls in a row have drained a queue of three
C8_Witness ==
    /\ kind = "autoReset"
    /\ run.n = 3 /\ Len(run.q) = 3
    /\ queue = << >>
    /\ ~active

\* C9. Auto-reset signal: active is true only if the queue is empty.
C9_AutoActiveQueueEmpty ==
    kind = "autoReset" /\ active => queue = << >>

\* the set() after the one that released the last of two queued waiters
C9_Witness ==
    /\ kind = "autoReset"
    /\ active
    /\ Len(run.q) >= 2 /\ run.n = Len(run.q) + 1

\* the initial count is a whole number (or omitted)
WholeInitialCount == ctor = << >> \/ ctor[1] % 2 = 0

\* the initial count as a whole number
InitialCount == Default(ctor, Num(DefaultInitialCount)) \div 2

\* C10. Countdown signal: after every completed operation the counter is a
\* non-negative integer and the inner signal is open exactly when the counter
\* is 0; a signal created with count 0 starts open, one created with a count
\* above 0 starts closed.
C10_CountdownInvariant ==
    kind = "countdown" =>
        /\ counter \in Nat
        /\ active <=> (counter = 0)
        /\ (op.name = "new" /\ WholeInitialCount =>
                /\ (InitialCount = 0 => active)
                /\ (InitialCount > 0 => ~active))

\* a signal created with a positive count, opened again by a decrement that
\* released two waiters
C10_Witness ==
    /\ kind = "countdown"
    /\ WholeInitialCount /\ InitialCount >= 2
    /\ op.name = "decrement" /\ op.n >= 2
    /\ counter = 0 /\ active


\* C11. Countdown signal created with a count n >= 1: ready() callers stay
\* queued while the decrements made so far total less than n (and there was
\* no increment); the decrement that brings the counter to zero resolves all
\* queued callers in the order of their calls; an increment() closes the
\* signal again, so that the next ready() is queued.
C11_CountdownScenario ==
    kind = "countdown" /\ WholeInitialCount /\ InitialCount >= 1 =>
        /\ (tally.plain /\ tally.dec < InitialCount =>
                resolved = << >> /\ queue = Ids(calls) /\ ~active)
        /\ (tally.plain /\ tally.dec >= InitialCount =>
                queue = << >> /\ resolved = Ids(calls) /\ active)
        /\ (op.name = "increment" => ~active /\ counter >= 1)
        /\ (op.name = "ready" /\ op.prev = "increment" =>
                /\ op.n = 0
                /\ queue # << >>
                /\ queue[Len(queue)] = calls)

\* countdown(3): the third decrement() has released two queued callers
C11_Witness ==
    /\ kind = "countdown" /\ ctor = <<Num(3)>>
    /\ tally.plain /\ tally.dec = 3
    /\ op.name = "decrement" /\ op.n >= 2
    /\ resolved = Ids(calls)

\* the count given to the operation, in halves (1 when omitted)
CountGiven(o) == Default(o.args, Num(DefaultCount))

\* C12. Countdown signal: decrement(n) on a counter of 0 leaves the counter
\* at 0 and the signal open; decrement(n) with n greater than the counter
\* sets the counter to 0 (never below) and opens the signal.
C12_DecrementFloorsAtZero ==
    [][kind = "countdown" /\ op'.name = "decrement" =>
        /\ counter' >= 0
        /\ (counter = 0 => counter' = 0 /\ active /\ active')
        /\ (CountGiven(op') > Num(counter) =>
                counter' = 0 /\ active' /\ queue' = << >>)]_vars

\* countdown(1), then decrement(2)
C12_Witness ==
    /\ kind = "countdown" /\ ctor = <<Num(1)>>
    /\ op.name = "decrement" /\ op.prev = "new" /\ op.args = <<Num(2)>>
    /\ counter = 0 /\ active

\* C13. Semaphore ready(): every call adds exactly one to admitted; the
\* caller is resolved at once iff the new admitted value is <= limit,
\* otherwise it is appended to the tail of the queue.
C13_SemaphoreReady ==
    [][kind = "semaphore" /\ op'.name = "ready" =>
        /\ counter' = counter + 1
        /\ IF counter' <= maxConcurrency
           THEN resolved' = Append(resolved, calls') /\ queue' = queue
           ELSE queue' = Append(queue, calls') /\ resolved' = resolved]_vars

\* a ready() that joined a queue of at least two behind a release
C13_Witness ==
    /\ kind = "semaphore"
    /\ op.name = "ready" /\ op.n = 0
    /\ tally.rel >= 1
    /\ Len(queue) >= 3
    /\ queue[Len(queue)] = calls

\* C14, as stated: with amount = min(admitted - queue.length, max(1, count)),
\* release resolves the first min(amount, queue.length) waiters in queue
\* order, removes exactly those from the queue and decreases admitted by
\* exactly amount.  (Stated in halves, so that a fractional count is taken as
\* it is given.)
C14_AsStated ==
    [][kind = "semaphore" /\ op'.name = "release" =>
        LET amountH == Math_min(Num(counter - Len(queue)),
                                Math_max(Num(1), CountGiven(op')))
        IN  /\ Num(Len(resolved') - Len(resolved)) = Math_min(amountH, Num(Len(queue)))
            /\ resolved' \o queue' = resolved \o queue
            /\ Num(counter') = Num(counter) - amountH]_vars

\* C14, amended: with amount = min(admitted - queue.length,
\* max(1, floor(count))), release resolves the first min(amount, queue.length)
\* waiters in queue order, removes exactly those from the queue and decreases
\* admitted by exactly amount.
C14_SemaphoreRelease ==
    [][kind = "semaphore" /\ op'.name = "release" =>
        LET amount == Math_min(counter - Len(queue),
                               Math_max(1, CountGiven(op') \div 2))
            k      == Math_min(amount, Len(queue))
        IN  /\ resolved' = resolved \o SubSeq(queue, 1, k)
            /\ queue' = SubSeq(queue, k + 1, Len(queue))
            /\ counter' = counter - amount]_vars

\* release(2.5) has resolved two waiters and left others queued
C14_Witness ==
    /\ kind = "semaphore"
    /\ op.name = "release" /\ op.args = <<5>> /\ op.n = 2
    /\ queue # << >>

\* C15. Semaphore over-release: release(count) never makes running or
\* admitted negative and never resolves more waiters than were running
\* before the call; release() with no running holder changes nothing.
C15_SemaphoreOverRelease ==
    [][kind = "semaphore" /\ op'.name = "release" =>
        /\ counter' >= 0
        /\ counter' - Len(queue') >= 0
        /\ Len(resolved') - Len(resolved) <= counter - Len(queue)
        /\ (counter - Len(queue) = 0 =>
                counter' = counter /\ queue' = queue /\ resolved' = resolved)]_vars

\* one holder, then release(2): a count above the number of holders
C15_Witness ==
    /\ kind = "semaphore"
    /\ calls = 1
    /\ op.name = "release" /\ op.prev = "ready" /\ op.args = <<Num(2)>>
    /\ counter = 0


\* C16. Semaphore admission, for every limit L >= 1: on a fresh semaphore
\* the first L ready() calls are resolved at once (then running = L,
\* queued = 0, available = 0); the (L+1)-th is queued (queued = 1,
\* running = L); release(1) then resolves that caller and leaves running = L,
\* queued = 0.
C16_AdmissionScenario ==
    kind = "semaphore" =>
        LET L == maxConcurrency
        IN  /\ (tally.rel = 0 /\ calls <= L =>
                    resolved = Ids(calls) /\ queue = << >>)
            /\ (tally.rel = 0 /\ calls = L =>
                    running = L /\ queued = 0 /\ available = 0)
            /\ (tally.rel = 0 /\ calls = L + 1 =>
                    /\ resolved = Ids(L) /\ queue = <<L + 1>>
                    /\ queued = 1 /\ running = L)
            /\ (tally.rel = 1 /\ calls = L + 1 /\ op.name = "release"
                    /\ op.prev = "ready" /\ CountGiven(op) = Num(1) =>
                    /\ resolved = Ids(L + 1)
                    /\ running = L /\ queued = 0)

\* semaphore(2): three ready() calls, then release(1)
C16_Witness ==
    /\ kind = "semaphore" /\ ctor = <<2>>
    /\ tally.rel = 1 /\ calls = 3
    /\ op.name = "release" /\ op.prev = "ready" /\ op.args = <<Num(1)>>
    /\ resolved = <<1, 2, 3>>

\* C17. Semaphore derived properties: queued is the queue length, running
\* is admitted minus the queue length (so running + queued = admitted),
\* available is limit - admitted and never below 0; after k <= limit ready()
\* calls on a fresh semaphore with no release, queued = 0, running = k and
\* available = limit - k.
C17_DerivedProperties ==
    kind = "semaphore" =>
        /\ queued = Len(queue)
        /\ running + queued = counter
        /\ available >= 0
        /\ (counter <= maxConcurrency => available = maxConcurrency - counter)
        /\ (counter > maxConcurrency => available = 0)
        /\ (tally.rel = 0 /\ calls <= maxConcurrency =>
                /\ queued = 0
                /\ running = calls
                /\ available = maxConcurrency - calls)

\* semaphore(3) after three ready() calls and no release: the pool is used up
C17_Witness ==
    /\ kind = "semaphore" /\ ctor = <<3>>
    /\ tally.rel = 0 /\ calls = 3
    /\ running = 3 /\ available = 0 /\ queued = 0

\* C18. FIFO over the whole history of an instance, for each primitive:
\* callers are resolved in the order of their ready() calls, and a later
\* call is never resolved while an earlier one still waits.  (The resolved
\* waiters followed by the queued ones are the calls 1, 2, ... in order.)
C18_FIFO ==
    resolved \o queue = Ids(calls)

\* a second release on a semaphore hands slots to two waiters, others wait
C18_Witness ==
    /\ kind = "semaphore"
    /\ tally.rel >= 2
    /\ op.name = "release" /\ op.n >= 2
    /\ queue # << >>

\* C19. Auto-reset reset(): sets active to false and leaves the queue and
\* the resolved waiters unchanged; after reset() on an open signal the next
\* ready() is queued, and stays queued until a set().
C19_AutoReset ==
    [][kind = "autoReset" =>
        /\ (op'.name = "reset" =>
                ~active' /\ queue' = queue /\ resolved' = resolved)
        /\ (op'.name = "ready" /\ op.name = "reset" =>
                queue' = Append(queue, calls') /\ resolved' = resolved)
        /\ (op'.name # "set" =>
                \A w \in Range(queue) :
                    w \in Range(queue') /\ w \notin Range(resolved'))]_vars

\* a signal created open, reset(), then a ready() that is queued
C19_Witness ==
    /\ kind = "autoReset" /\ ctor = <<TRUE>>
    /\ op.name = "ready" /\ op.prev = "reset"
    /\ lastToggle = "reset"
    /\ resolved = << >>
    /\ queue = <<1>>

\* the count a call is documented to act on: 1 for an omitted count and for
\* a count below 1, floor(count) otherwise
Normalised(args) ==
    <<Num(IF args = << >> \/ args[1] < Num(1) THEN 1 ELSE args[1] \div 2)>>

\* C20. Count normalisation: for a count below 1 and for an omitted count,
\* increment(count), decrement(count) and release(count) have exactly the
\* effect of the call with count 1; a fractional count >= 1 has the effect of
\* floor(count).
C20_CountNormalisation ==
    \A args \in CountArgs :
        /\ (kind = "countdown" =>
                /\ countdown_increment(Countdown, args)
                     = countdown_increment(Countdown, Normalised(args))
                /\ countdown_decrement(Countdown, args)
                     = countdown_decrement(Countdown, Normalised(args)))
        /\ (kind = "semaphore" =>
                semaphore_release(Semaphore, args)
                  = semaphore_release(Semaphore, Normalised(args)))

\* decrement(-0.5) has acted as decrement(1): it opened the signal and
\* released the queued callers
C20_Witness ==
    /\ kind = "countdown"
    /\ op.name = "decrement" /\ op.args = <<-1>> /\ op.n >= 1
    /\ counter = 0 /\ active

\* the waiters whose continuation made ready() call x
Parents(x) == {p[2] : p \in {q \in mt.parent : q[1] = x}}

C22_NoLostWaiter ==
    /\ [](/\ Range(resolved) \cup Range(queue) = 1..calls
          /\ Range(resolved) \cap Range(queue) = {}
          /\ NoDup(queue))
    /\ [][/\ \A w \in Range(queue) :
                w \in Range(queue') \/ w \in Range(resolved')
          /\ \A w \in Range(queue) \ Range(queue') :
                w \notin Range(resolved) /\ op'.name \in {"set", "decrement", "release"}
          /\ Range(resolved) \subseteq Range(resolved')]_vars

\* a countdown signal that has resolved a caller while open: an increment()
\* has just closed it again and the two callers that came before it wait on
C22_Witness ==
    /\ kind = "countdown"
    /\ op.name = "increment"
    /\ resolved # << >>
    /\ Len(queue) >= 2

\* C23. The semaphore is work-conserving: in every state reachable with
\* limit L >= 1, queued = max(0, admitted - L) and running = min(admitted, L);
\* hence running + available = L, and a waiter is queued only while
\* running = L (queued > 0 implies available = 0).
C23_WorkConserving ==
    kind = "semaphore" /\ maxConcurrency >= 1 =>
        /\ queued = Math_max(0, counter - maxConcurrency)
        /\ running = Math_min(counter, maxConcurrency)
        /\ running + available = maxConcurrency
        /\ (queued > 0 => running = maxConcurrency /\ available = 0)

\* a release of two slots found one waiter: the waiter got one of them, the
\* other is free and nobody waits
C23_Witness ==
    /\ kind = "semaphore" /\ maxConcurrency >= 2
    /\ op.name = "release" /\ op.n = 1 /\ CountGiven(op) = Num(2)
    /\ queued = 0
    /\ running = maxConcurrency - 1
    /\ available = 1

\* C24. Semaphore liveness: if every admitted holder eventually calls
\* release(1) exactly once and nothing else calls release, then every caller
\* of ready() is eventually resolved, and callers are resolved in the order
\* of their ready() calls.
C24_SemaphoreLiveness ==
    /\ \A w \in 1..MaxCalls : (w <= calls) ~> (w \in Range(resolved))
    /\ [](resolved = Ids(Len(resolved)))

\* semaphore(1): four callers, each was handed the slot by the one before
\* it; all of them were resolved and the first three have released
C24_Witness ==
    /\ kind = "semaphore" /\ ctor = <<1>>
    /\ calls = 4
    /\ resolved = <<1, 2, 3, 4>>
    /\ cs.exited = {1, 2, 3}
    /\ op.name = "release" /\ op.n = 1

\* C25. Auto-reset liveness: on a signal that starts open, if every caller
\* resolved by ready() eventually calls set() exactly once and nothing else
\* calls set() or reset(), then every caller of ready() is eventually
\* resolved; on a signal that starts closed (the default) under the same
\* protocol no caller is ever resolved.
C25_AutoResetLiveness ==
    /\ \A w \in 1..MaxCalls :
          (Default(ctor, DefaultSignaled) /\ w <= calls) ~> (w \in Range(resolved))
    /\ [](~Default(ctor, DefaultSignaled) => resolved = << >>)

\* a signal created open: three callers, the second and the third waited and
\* were resolved by the set() of the caller before them
C25_Witness ==
    /\ kind = "autoReset" /\ ctor = <<TRUE>>
    /\ calls = 3
    /\ resolved = <<1, 2, 3>>
    /\ cs.exited = {1, 2}
    /\ op.name = "set" /\ op.n = 1 /\ op.prev = "ready"

\* C26. Auto-reset signals do not accumulate: set() on an open signal with
\* an empty queue leaves the state unchanged, so after any number m >= 1 of
\* consecutive set() calls with no queued waiter exactly one subsequent
\* ready() is resolved immediately and the next one is queued; over any
\* history the number of resolved ready() calls is at most the number of
\* set() calls, plus one if the signal started open.
C26_NoAccumulation ==
    /\ [](kind = "autoReset" =>
            Len(resolved) <= tally.sets + (IF Default(ctor, DefaultSignaled) THEN 1 ELSE 0))
    /\ [][kind = "autoReset" =>
            /\ (op'.name = "set" /\ active /\ queue = << >> =>
                    active' /\ queue' = << >> /\ resolved' = resolved)
            /\ (op'.name = "ready" /\ run.n >= 1 /\ run.q = << >> =>
                    /\ resolved' = Append(resolved, calls')
                    /\ queue' = << >>
                    /\ ~active')
            /\ (op'.name = "ready" /\ op.name = "ready" /\ op.n = 1 =>
                    /\ resolved' = resolved
                    /\ queue' = Append(queue, calls'))]_vars

\* a signal created closed: three set() calls, a ready() that was resolved
\* at once and a ready() that waits
C26_Witness ==
    /\ kind = "autoReset" /\ ctor = << >>
    /\ tally.sets = 3 /\ lastToggle = "set"
    /\ calls = 2
    /\ op.name = "ready" /\ op.prev = "ready"
    /\ resolved = <<1>>
    /\ queue = <<2>>

\* C27. Countdown over-decrement is forgotten: the excess of a decrement
\* beyond the current counter is discarded, so after decrement(m) with
\* m > counter the counter is 0, and a following increment(k) makes the
\* counter exactly k and requires decrements totalling k to reopen the
\* signal (the counter is not the signed sum of increments minus decrements).
C27_OverDecrementForgotten ==
    kind = "countdown" =>
        /\ (tally.over => counter = 0 /\ active)
        /\ (tally.owed.k > 0 =>
                /\ counter = tally.owed.k - tally.owed.d
                /\ active = (tally.owed.d = tally.owed.k))

\* countdown(1): a decrement beyond the counter, then increment(2), then
\* decrements that add up to 2: the last of them, a decrement(1), reopened
\* the signal for the caller that waited
C27_Witness ==
    /\ kind = "countdown" /\ ctor = <<Num(1)>>
    /\ tally.owed = [k |-> 2, d |-> 2]
    /\ op.name = "decrement" /\ op.n = 1 /\ CountGiven(op) = Num(1)
    /\ ~tally.over
    /\ active /\ counter = 0

=============================================================================
